---- MODULE Spec2Model ----
(***************************************************************************)
(* Model of linsk's VM bootstrap code (src/vm/ssh.go, package vm) and of   *)
(* the qemucli argument model (src/vm/ssh.go lines 172-282, package        *)
(* qemucli, and src/unnamed/part_000).                                     *)
(*                                                                         *)
(* Byte strings are sequences of one-character strings.                    *)
(***************************************************************************)
EXTENDS Integers, Sequences, FiniteSets, TLC

VARIABLES
    \* ---- Instance / serial bootstrap (sshSetup, scanSSHIdentity) ----
    op,            \* which method is being invoked: "setup" or "scan"
    pc,            \* position of the invocation in the method body
    ch,            \* vi.serialStdoutCh: chunks waiting to be received
    ctxDone,       \* vi.ctx is cancelled
    now,           \* wall clock, in seconds
    deadline,      \* local variable `deadline`
    stdOutErrBuf,  \* sshSetup's local log buffer
    ret,           \* scanSSHIdentity's local result buffer
    result,        \* the pair the method returned: [val, err]
    consumed,      \* history: the chunks received by the loop, in order
    emitted,       \* history: number of chunks the guest emitted so far
    calls,         \* history: the calls of generateSSHKey and writeSerial
                   \* made so far, each with its outcome: [fn, ok]
    \* ---- ParseSSHKeyScan and the callback it returns ----
    knownHosts,    \* the argument of ParseSSHKeyScan
    pcP,           \* "start", "parsed" (ParseSSHKeyScan returned), "verified"
    parsed,        \* what ParseSSHKeyScan returned: [ok, knownKeysMap, err]
    presented,     \* the arguments of the last call of the returned callback
    verdict,       \* the error the callback returned
    \* ---- qemucli.NewKeyValueArg and KeyValueArg.StringValue ----
    argKey,        \* the key argument
    items,         \* the caller's items slice
    a,             \* the object under construction: [key, items]
    idx,           \* the loop index i of NewKeyValueArg (from 1)
    itemCopy,      \* the loop's local copy `item := item`
    pcA,           \* "start", "loop", "check", "returned", "rendered";
                   \* "flagStart", "flagReturned" for NewFlagArg
    argResult,     \* what the constructor returned: [obj, err]
    rendered,      \* what StringValue() returned
    \* ---- runSSHCmd ----
    pcS,           \* "new", "run", "running", "closing", "returned"
    sessOpened,    \* history: number of sessions the call opened
    sessOpen,      \* number of sessions open now
    cmdRuns,       \* history: number of times the command was started
    stdout,        \* the buffer behind sess.Stdout
    stderr,        \* the buffer behind sess.Stderr
    sshResult      \* the pair runSSHCmd returned: [val, out, err]

serialVars == <<op, pc, ch, ctxDone, now, deadline, stdOutErrBuf, ret, result,
                consumed, emitted, calls>>

parseVars == <<knownHosts, pcP, parsed, presented, verdict>>

argVars == <<argKey, items, a, idx, itemCopy, pcA, argResult, rendered>>

sshVars == <<pcS, sessOpened, sessOpen, cmdRuns, stdout, stderr, sshResult>>

\* The state the serial actions leave alone
nonSerialVars == <<parseVars, argVars, sshVars>>

\* The state the ParseSSHKeyScan actions leave alone
nonParseVars == <<serialVars, argVars, sshVars>>

\* The state the qemucli actions leave alone
nonArgVars == <<serialVars, parseVars, sshVars>>

\* The state the runSSHCmd actions leave alone
nonSSHVars == <<serialVars, parseVars, argVars>>

vars == <<serialVars, parseVars, argVars, sshVars>>

-----------------------------------------------------------------------------
(* Bounds *)

MaxChunks == 3     \* chunks the guest emits in one behaviour
ChanCap == 1       \* chunks the channel holds
MaxTime == 0       \* seconds that may pass before the wait loop starts

(* Program constant: time.Second * 5 *)
TimeoutSecs == 5

-----------------------------------------------------------------------------
(* Byte-string helpers *)

\* bytes.Contains in the place of bytes.HasPrefix
HasPrefix_Contains(s, p) ==
    \E i \in 0..(Len(s) - Len(p)) : SubSeq(s, i + 1, i + Len(p)) = p

HasPrefix(s, p) == Len(s) >= Len(p) /\ SubSeq(s, 1, Len(p)) = p

RECURSIVE Concat(_)
Concat(ss) == IF ss = <<>> THEN <<>> ELSE Head(ss) \o Concat(Tail(ss))

\* s occurs in t as a contiguous run of bytes
Embeds(t, s) ==
    \E i \in 0..(Len(t) - Len(s)) : SubSeq(t, i + 1, i + Len(s)) = s

-----------------------------------------------------------------------------
(* Serial wire data *)

\* []byte("SERIAL STATUS: ")
prefix == <<"S","E","R","I","A","L"," ","S","T","A","T","U","S",":"," ">>

\* Chunks the serial reader may deliver.
ChunkEmpty == <<>>
ChunkBare == prefix
ChunkOk == prefix \o <<"0">>
ChunkFail == prefix \o <<"1">>
ChunkScanLine == <<"|", "k">>
ChunkEcho == <<"$">> \o prefix \o <<"0">>

Chunks == {ChunkEmpty, ChunkBare, ChunkOk, ChunkFail, ChunkScanLine,
           ChunkEcho}

-----------------------------------------------------------------------------
(* Return values *)

NilErr == [msg |-> "nil", arg |-> <<>>, log |-> <<>>]
Err(m, arg, l) == [msg |-> m, arg |-> arg, log |-> l]

NoResult == [val |-> "pending", out |-> <<>>, err |-> NilErr]
Return(v, o, e) == [val |-> v, out |-> o, err |-> e]

\* vi.ctx.Err()
CtxErr == Err("context canceled", <<>>, <<>>)

\* getLogErrMsg: renders the log for inclusion in an error message.
LogHeader == <<"l", "o", "g", ":">>
getLogErrMsg(log) == LogHeader \o log

\* errors.Wrap(err, "generate ssh key")
KeygenErr == Err("generate ssh key", <<>>, <<>>)

-----------------------------------------------------------------------------
(* Environment of an Instance: the guest's serial reader, the owner of the *)
(* lifetime context, and the clock.                                        *)

\* Positions at which the command has not yet been written to the serial device
BeforeWrite == {"reset", "keygen", "write"}

\* The serial reader delivers a chunk on vi.serialStdoutCh. `pre` records
\* whether the chunk arrived before the command was written (history only).
Emit ==
    /\ emitted < MaxChunks
    /\ Len(ch) < ChanCap
    /\ \E c \in Chunks :
          ch' = Append(ch, [data |-> c, pre |-> pc \in BeforeWrite])
    /\ emitted' = emitted + 1
    /\ UNCHANGED <<op, pc, ctxDone, now, deadline, stdOutErrBuf, ret, result,
                   consumed>>
    /\ UNCHANGED calls
    /\ UNCHANGED nonSerialVars

\* The lifetime context is cancelled.
Cancel ==
    /\ pc # "done"
    /\ ~ctxDone
    /\ ctxDone' = TRUE
    /\ UNCHANGED <<op, pc, ch, now, deadline, stdOutErrBuf, ret, result,
                   consumed, emitted>>
    /\ UNCHANGED calls
    /\ UNCHANGED nonSerialVars

\* One second passes. Time before the wait loop is capped by MaxTime; in the
\* wait loop time always advances as far as the deadline.
Tick ==
    /\ pc # "done"
    /\ \/ now < MaxTime
       \/ pc = "wait" /\ now < deadline
    /\ now' = now + 1
    /\ UNCHANGED <<op, pc, ch, ctxDone, deadline, stdOutErrBuf, ret, result,
                   consumed, emitted>>
    /\ UNCHANGED calls
    /\ UNCHANGED nonSerialVars

\* vi.resetSerialStdout(): drops the serial output buffered so far.
resetSerialStdout == ch' = <<>>

\* History entry for a received chunk: the chunk, whether it arrived before
\* the command was written, and whether the context was already cancelled
\* when it was received.
Received(c) == [data |-> c.data, pre |-> c.pre, late |-> ctxDone]

-----------------------------------------------------------------------------
(* func (vi *Instance) sshSetup() (ssh.Signer, error) *)

\* SetupAccumulate on a buffer that is created inside the loop: each chunk
\* replaces the log
SetupAccumulate_Overwrites(buf, data) == data

\* stdOutErrBuf.Write(data)
SetupAccumulate(buf, data) == buf \o data

\* SetupStatus without the len(data) == len(prefix) branch: a missing status
\* character is reported like a wrong one
SetupStatus_NoBareBranch(data, log) ==
    IF Len(data) = Len(prefix) \/ data[Len(prefix) + 1] # "0"
    THEN Return("nil", <<>>,
                Err("non-zero setup command status code",
                    <<>>, getLogErrMsg(log)))
    ELSE Return("sshSigner", <<>>, NilErr)

\* SetupStatus with the status comparison accepting '1' as well as '0'
SetupStatus_AcceptsOne(data, log) ==
    IF Len(data) = Len(prefix)
    THEN Return("nil", <<>>,
                Err("setup command status code did not show up", <<>>, <<>>))
    ELSE IF data[Len(prefix) + 1] \notin {"0", "1"}
    THEN Return("nil", <<>>,
                Err("non-zero setup command status code",
                    <<data[Len(prefix) + 1]>>, getLogErrMsg(log)))
    ELSE Return("sshSigner", <<>>, NilErr)

\* The body of `if bytes.HasPrefix(data, prefix) { ... }`, log being the
\* buffer after the chunk was written to it.
SetupStatus(data, log) ==
    IF Len(data) = Len(prefix)
    THEN Return("nil", <<>>,
                Err("setup command status code did not show up", <<>>, <<>>))
    ELSE IF data[Len(prefix) + 1] # "0"
    THEN Return("nil", <<>>,
                Err("non-zero setup command status code",
                    <<data[Len(prefix) + 1]>>, getLogErrMsg(log)))
    ELSE Return("sshSigner", <<>>, NilErr)

\* fmt.Errorf("setup command timed out %v", getLogErrMsg(...))
SetupTimeoutErr(log) == Err("setup command timed out", <<>>, getLogErrMsg(log))

SshSetupReset ==
    /\ op = "setup" /\ pc = "reset"
    /\ resetSerialStdout
    /\ pc' = "keygen"
    /\ UNCHANGED <<op, ctxDone, now, deadline, stdOutErrBuf, ret, result,
                   consumed, emitted>>
    /\ UNCHANGED calls
    /\ UNCHANGED nonSerialVars

\* SshSetupKeygen calling generateSSHKey() again when it failed
SshSetupKeygen_Retries ==
    /\ op = "setup" /\ pc = "keygen"
    /\ \E ok \in BOOLEAN :
          /\ calls' = Append(calls, [fn |-> "generateSSHKey", ok |-> ok])
          /\ IF ok
             THEN pc' = "write" /\ result' = result
             ELSE pc' = "keygen" /\ result' = result
    /\ UNCHANGED <<op, ch, ctxDone, now, deadline, stdOutErrBuf, ret,
                   consumed, emitted>>
    /\ UNCHANGED nonSerialVars

\* generateSSHKey() and its error check
SshSetupKeygen ==
    /\ op = "setup" /\ pc = "keygen"
    /\ \E ok \in BOOLEAN :
          /\ calls' = Append(calls, [fn |-> "generateSSHKey", ok |-> ok])
          /\ IF ok
             THEN pc' = "write" /\ result' = result
             ELSE pc' = "done" /\ result' = Return("nil", <<>>, KeygenErr)
    /\ UNCHANGED <<op, ch, ctxDone, now, deadline, stdOutErrBuf, ret,
                   consumed, emitted>>
    /\ UNCHANGED nonSerialVars

\* vi.writeSerial([]byte(cmd)) and its error check
SshSetupWrite ==
    /\ op = "setup" /\ pc = "write"
    /\ \E ok \in BOOLEAN :
          /\ calls' = Append(calls, [fn |-> "writeSerial", ok |-> ok])
          /\ IF ok
             THEN pc' = "deadline" /\ result' = result
             ELSE /\ pc' = "done"
                  /\ result' = Return("nil", <<>>,
                         Err("write ssh setup serial command", <<>>, <<>>))
    /\ UNCHANGED <<op, ch, ctxDone, now, deadline, stdOutErrBuf, ret,
                   consumed, emitted>>
    /\ UNCHANGED nonSerialVars

\* deadline := time.Now().Add(time.Second * 5); stdOutErrBuf := bytes.NewBuffer(nil)
SshSetupDeadline ==
    /\ op = "setup" /\ pc = "deadline"
    /\ deadline' = now + TimeoutSecs
    /\ stdOutErrBuf' = <<>>
    /\ pc' = "wait"
    /\ UNCHANGED <<op, ch, ctxDone, now, ret, result, consumed, emitted>>
    /\ UNCHANGED calls
    /\ UNCHANGED nonSerialVars

\* SshSetupCtxDone without waiting for the context to be cancelled
SshSetupCtxDone_Unguarded ==
    /\ op = "setup" /\ pc = "wait"
    /\ result' = Return("nil", <<>>, CtxErr)
    /\ pc' = "done"
    /\ UNCHANGED <<op, ch, ctxDone, now, deadline, stdOutErrBuf, ret,
                   consumed, emitted>>
    /\ UNCHANGED calls
    /\ UNCHANGED nonSerialVars

\* case <-vi.ctx.Done()
SshSetupCtxDone ==
    /\ op = "setup" /\ pc = "wait"
    /\ ctxDone
    /\ result' = Return("nil", <<>>, CtxErr)
    /\ pc' = "done"
    /\ UNCHANGED <<op, ch, ctxDone, now, deadline, stdOutErrBuf, ret,
                   consumed, emitted>>
    /\ UNCHANGED calls
    /\ UNCHANGED nonSerialVars

\* case <-time.After(time.Until(deadline))
SshSetupTimeout ==
    /\ op = "setup" /\ pc = "wait"
    /\ now >= deadline
    /\ result' = Return("nil", <<>>, SetupTimeoutErr(stdOutErrBuf))
    /\ pc' = "done"
    /\ UNCHANGED <<op, ch, ctxDone, now, deadline, stdOutErrBuf, ret,
                   consumed, emitted>>
    /\ UNCHANGED calls
    /\ UNCHANGED nonSerialVars

\* SshSetupRecv with the timer restarted at every chunk, as a
\* time.After(time.Second * 5) inside the loop would do
SshSetupRecv_TimerRestarts ==
    /\ op = "setup" /\ pc = "wait"
    /\ ch # <<>>
    /\ LET data == Head(ch).data
           log == SetupAccumulate(stdOutErrBuf, data)
       IN  /\ ch' = Tail(ch)
           /\ consumed' = Append(consumed, Received(Head(ch)))
           /\ stdOutErrBuf' = log
           /\ deadline' = now + TimeoutSecs
           /\ IF HasPrefix(data, prefix)
              THEN pc' = "done" /\ result' = SetupStatus(data, log)
              ELSE pc' = "wait" /\ result' = result
    /\ UNCHANGED <<op, ctxDone, now, ret, emitted>>
    /\ UNCHANGED calls
    /\ UNCHANGED nonSerialVars

\* case data := <-vi.serialStdoutCh
SshSetupRecv ==
    /\ op = "setup" /\ pc = "wait"
    /\ ch # <<>>
    /\ LET data == Head(ch).data
           log == SetupAccumulate(stdOutErrBuf, data)
       IN  /\ ch' = Tail(ch)
           /\ consumed' = Append(consumed, Received(Head(ch)))
           /\ stdOutErrBuf' = log
           /\ IF HasPrefix(data, prefix)
              THEN pc' = "done" /\ result' = SetupStatus(data, log)
              ELSE pc' = "wait" /\ result' = result
    /\ UNCHANGED <<op, ctxDone, now, deadline, ret, emitted>>
    /\ UNCHANGED calls
    /\ UNCHANGED nonSerialVars

-----------------------------------------------------------------------------
(* func (vi *Instance) scanSSHIdentity() ([]byte, error) *)

\* ScanAccumulate keeping every non-empty chunk
ScanAccumulate_KeepsAll(buf, data) == buf \o data

\* } else if data[0] == '|' { ret.Write(data) }
ScanAccumulate(buf, data) == IF data[1] = "|" THEN buf \o data ELSE buf

\* The body of `if bytes.HasPrefix(data, prefix) { ... }`
ScanStatus(data, buf) ==
    IF Len(data) = Len(prefix)
    THEN Return("nil", <<>>,
                Err("keyscan command status code did not show up", <<>>, <<>>))
    ELSE IF data[Len(prefix) + 1] # "0"
    THEN Return("nil", <<>>,
                Err("non-zero keyscan command status code",
                    <<data[Len(prefix) + 1]>>, <<>>))
    ELSE Return("bytes", buf, NilErr)

ScanReset ==
    /\ op = "scan" /\ pc = "reset"
    /\ resetSerialStdout
    /\ pc' = "write"
    /\ UNCHANGED <<op, ctxDone, now, deadline, stdOutErrBuf, ret, result,
                   consumed, emitted>>
    /\ UNCHANGED calls
    /\ UNCHANGED nonSerialVars

ScanWrite ==
    /\ op = "scan" /\ pc = "write"
    /\ \E ok \in BOOLEAN :
          /\ calls' = Append(calls, [fn |-> "writeSerial", ok |-> ok])
          /\ IF ok
             THEN pc' = "deadline" /\ result' = result
             ELSE /\ pc' = "done"
                  /\ result' = Return("nil", <<>>,
                         Err("write keyscan command to serial", <<>>, <<>>))
    /\ UNCHANGED <<op, ch, ctxDone, now, deadline, stdOutErrBuf, ret,
                   consumed, emitted>>
    /\ UNCHANGED nonSerialVars

\* deadline := time.Now().Add(time.Second * 5); var ret bytes.Buffer
ScanDeadline ==
    /\ op = "scan" /\ pc = "deadline"
    /\ deadline' = now + TimeoutSecs
    /\ ret' = <<>>
    /\ pc' = "wait"
    /\ UNCHANGED <<op, ch, ctxDone, now, stdOutErrBuf, result, consumed,
                   emitted>>
    /\ UNCHANGED calls
    /\ UNCHANGED nonSerialVars

ScanCtxDone ==
    /\ op = "scan" /\ pc = "wait"
    /\ ctxDone
    /\ result' = Return("nil", <<>>, CtxErr)
    /\ pc' = "done"
    /\ UNCHANGED <<op, ch, ctxDone, now, deadline, stdOutErrBuf, ret,
                   consumed, emitted>>
    /\ UNCHANGED calls
    /\ UNCHANGED nonSerialVars

ScanTimeout ==
    /\ op = "scan" /\ pc = "wait"
    /\ now >= deadline
    /\ result' = Return("nil", <<>>, Err("keyscan command timed out", <<>>, <<>>))
    /\ pc' = "done"
    /\ UNCHANGED <<op, ch, ctxDone, now, deadline, stdOutErrBuf, ret,
                   consumed, emitted>>
    /\ UNCHANGED calls
    /\ UNCHANGED nonSerialVars

ScanRecv ==
    /\ op = "scan" /\ pc = "wait"
    /\ ch # <<>>
    /\ LET data == Head(ch).data
       IN  /\ ch' = Tail(ch)
           /\ consumed' = Append(consumed, Received(Head(ch)))
           /\ IF Len(data) = 0
              THEN pc' = "wait" /\ result' = result /\ ret' = ret
              ELSE IF HasPrefix(data, prefix)
              THEN pc' = "done" /\ result' = ScanStatus(data, ret) /\ ret' = ret
              ELSE pc' = "wait" /\ result' = result
                   /\ ret' = ScanAccumulate(ret, data)
    /\ UNCHANGED <<op, ctxDone, now, deadline, stdOutErrBuf, emitted>>
    /\ UNCHANGED calls
    /\ UNCHANGED nonSerialVars

-----------------------------------------------------------------------------
(* func runSSHCmd(c *ssh.Client, cmd string) ([]byte, error) *)

MaxOut == 2        \* bytes the remote command writes to each of its streams

\* The bytes a remote command writes
OutBytes == {"x", "y"}

\* The errors c.NewSession() and sess.Run(cmd) fail with
SessionErrs == {<<"E", "O", "F">>}
RunErrs == {<<"e", "x", "i", "t">>, <<"E", "O", "F">>}
NoErr == <<>>

\* wrapErrWithLog(err, msg, log): err wrapped with msg and the log text
wrapErrWithLog(err, m, log) == Err(m, err, getLogErrMsg(log))

\* errors.Wrap(err, "create new vm ssh session")
SessionErr(err) == Err("create new vm ssh session", err, <<>>)

\* runSSHCmd passing the standard-output text to wrapErrWithLog and returning
\* the error-stream bytes
RunCmdResult_SwapsStreams(err, out, errOut) ==
    IF err # NoErr
    THEN Return("nil", <<>>, wrapErrWithLog(err, "run cmd", out))
    ELSE Return("bytes", errOut, NilErr)

\* The return statements after sess.Run(cmd)
RunCmdResult(err, out, errOut) ==
    IF err # NoErr
    THEN Return("nil", <<>>, wrapErrWithLog(err, "run cmd", errOut))
    ELSE Return("bytes", out, NilErr)

IdleSSH ==
    /\ pcS = "idle"
    /\ sessOpened = 0
    /\ sessOpen = 0
    /\ cmdRuns = 0
    /\ stdout = <<>>
    /\ stderr = <<>>
    /\ sshResult = NoResult

\* sess, err := c.NewSession() and its error check; on success the deferred
\* sess.Close() is registered and the two buffers are attached
SSHNewSession ==
    /\ pcS = "new"
    /\ \/ /\ pcS' = "run"
          /\ sessOpened' = sessOpened + 1
          /\ sessOpen' = sessOpen + 1
          /\ UNCHANGED sshResult
       \/ \E err \in SessionErrs :
            /\ pcS' = "returned"
            /\ sshResult' = Return("nil", <<>>, SessionErr(err))
            /\ UNCHANGED <<sessOpened, sessOpen>>
    /\ UNCHANGED <<cmdRuns, stdout, stderr>>
    /\ UNCHANGED nonSSHVars

\* sess.Run(cmd) starts the command
SSHRunStart ==
    /\ pcS = "run"
    /\ cmdRuns' = cmdRuns + 1
    /\ pcS' = "running"
    /\ UNCHANGED <<sessOpened, sessOpen, stdout, stderr, sshResult>>
    /\ UNCHANGED nonSSHVars

\* While sess.Run(cmd) waits, the command writes to its streams
SSHOutput ==
    /\ pcS = "running"
    /\ \E b \in OutBytes :
          \/ Len(stdout) < MaxOut /\ stdout' = Append(stdout, b)
                                  /\ UNCHANGED stderr
          \/ Len(stderr) < MaxOut /\ stderr' = Append(stderr, b)
                                  /\ UNCHANGED stdout
    /\ UNCHANGED <<pcS, sessOpened, sessOpen, cmdRuns, sshResult>>
    /\ UNCHANGED nonSSHVars

\* sess.Run(cmd) returns; the return statement is evaluated
SSHRunEnds ==
    /\ pcS = "running"
    /\ \E err \in RunErrs \cup {NoErr} :
          sshResult' = RunCmdResult(err, stdout, stderr)
    /\ pcS' = "closing"
    /\ UNCHANGED <<sessOpened, sessOpen, cmdRuns, stdout, stderr>>
    /\ UNCHANGED nonSSHVars

\* The deferred call closing the session only when the command succeeded
SSHDeferredClose_OnlyOnSuccess ==
    /\ pcS = "closing"
    /\ sessOpen' = IF sshResult.err = NilErr THEN sessOpen - 1 ELSE sessOpen
    /\ pcS' = "returned"
    /\ UNCHANGED <<sessOpened, cmdRuns, stdout, stderr, sshResult>>
    /\ UNCHANGED nonSSHVars

\* defer func() { _ = sess.Close() }() runs, then the call returns
SSHDeferredClose ==
    /\ pcS = "closing"
    /\ sessOpen' = sessOpen - 1
    /\ pcS' = "returned"
    /\ UNCHANGED <<sessOpened, cmdRuns, stdout, stderr, sshResult>>
    /\ UNCHANGED nonSSHVars

-----------------------------------------------------------------------------
(* func ParseSSHKeyScan(knownHosts []byte) (ssh.HostKeyCallback, error) *)

NL == "\n"
SP == " "
CR == "\r"

\* strings.Split(s, sep) for a one-byte separator
RECURSIVE SplitFrom(_, _, _, _)
SplitFrom(s, sep, i, cur) ==
    IF i > Len(s) THEN <<cur>>
    ELSE IF s[i] = sep THEN <<cur>> \o SplitFrom(s, sep, i + 1, <<>>)
    ELSE SplitFrom(s, sep, i + 1, Append(cur, s[i]))

Split(s, sep) == SplitFrom(s, sep, 1, <<>>)

\* The alphabet of base64.StdEncoding
B64Alphabet ==
    <<"A","B","C","D","E","F","G","H","I","J","K","L","M","N","O","P",
      "Q","R","S","T","U","V","W","X","Y","Z","a","b","c","d","e","f",
      "g","h","i","j","k","l","m","n","o","p","q","r","s","t","u","v",
      "w","x","y","z","0","1","2","3","4","5","6","7","8","9","+","/">>

B64Pad == "="

InB64Alphabet(c) == \E i \in 1..Len(B64Alphabet) : B64Alphabet[i] = c

B64Value(c) == (CHOOSE i \in 1..Len(B64Alphabet) : B64Alphabet[i] = c) - 1

DecodeFail == [ok |-> FALSE, bytes |-> <<>>]

\* One 4-character quantum; `last` says whether it ends the input.
DecodeQuantum(q, last) ==
    IF InB64Alphabet(q[1]) /\ InB64Alphabet(q[2])
    THEN LET v12 == B64Value(q[1]) * 64 + B64Value(q[2])
         IN  IF InB64Alphabet(q[3]) /\ InB64Alphabet(q[4])
             THEN LET v == (v12 * 64 + B64Value(q[3])) * 64 + B64Value(q[4])
                  IN  [ok |-> TRUE,
                       bytes |-> <<v \div 65536, (v \div 256) % 256, v % 256>>]
             ELSE IF InB64Alphabet(q[3]) /\ q[4] = B64Pad /\ last
             THEN LET v == v12 * 64 + B64Value(q[3])
                  IN  [ok |-> TRUE, bytes |-> <<v \div 1024, (v \div 4) % 256>>]
             ELSE IF q[3] = B64Pad /\ q[4] = B64Pad /\ last
             THEN [ok |-> TRUE, bytes |-> <<v12 \div 16>>]
             ELSE DecodeFail
    ELSE DecodeFail

RECURSIVE DecodeQuanta(_)
DecodeQuanta(s) ==
    IF s = <<>> THEN [ok |-> TRUE, bytes |-> <<>>]
    ELSE IF Len(s) < 4 THEN DecodeFail
    ELSE LET q == DecodeQuantum(SubSeq(s, 1, 4), Len(s) = 4)
             rest == DecodeQuanta(SubSeq(s, 5, Len(s)))
         IN  IF q.ok /\ rest.ok
             THEN [ok |-> TRUE, bytes |-> q.bytes \o rest.bytes]
             ELSE DecodeFail

\* base64.StdEncoding.DecodeString: padded, and '\r' and '\n' are ignored
DecodeString(s) ==
    DecodeQuanta(SelectSeq(s, LAMBDA c : c # CR /\ c # NL))

\* The map keeping the first value stored under a key
MapPut_KeepsFirst(m, k, b) ==
    [t \in DOMAIN m \cup {k} |-> IF t \in DOMAIN m THEN m[t] ELSE b]

\* knownKeysMap[k] = b
MapPut(m, k, b) ==
    [t \in DOMAIN m \cup {k} |-> IF t = k THEN b ELSE m[t]]

EmptyMap == [t \in {} |-> <<>>]

ParseOk(m) == [ok |-> TRUE, knownKeysMap |-> m, err |-> NilErr]
ParseErr(m) == [ok |-> FALSE, knownKeysMap |-> EmptyMap, err |-> Err(m, <<>>, <<>>)]

\* The loop over the lines, ParseLoop_SkipsBad being the loop with `continue`
\* in place of the two error returns
RECURSIVE ParseLoop_SkipsBad(_, _)
ParseLoop_SkipsBad(lines, m) ==
    IF lines = <<>> THEN ParseOk(m)
    ELSE LET line == Head(lines)
             lineSplit == Split(line, SP)
         IN  IF Len(line) = 0 THEN ParseLoop_SkipsBad(Tail(lines), m)
             ELSE IF Len(lineSplit) # 3 THEN ParseLoop_SkipsBad(Tail(lines), m)
             ELSE LET b == DecodeString(lineSplit[3])
                  IN  IF ~b.ok THEN ParseLoop_SkipsBad(Tail(lines), m)
                      ELSE ParseLoop_SkipsBad(Tail(lines),
                                              MapPut(m, lineSplit[2], b.bytes))

RECURSIVE ParseLoop(_, _)
ParseLoop(lines, m) ==
    IF lines = <<>> THEN ParseOk(m)
    ELSE LET line == Head(lines)
             lineSplit == Split(line, SP)
         IN  IF Len(line) = 0 THEN ParseLoop(Tail(lines), m)
             ELSE IF Len(lineSplit) # 3
             THEN ParseErr("bad split ssh identity string length")
             ELSE LET b == DecodeString(lineSplit[3])
                  IN  IF ~b.ok THEN ParseErr("decode base64 public key")
                      ELSE ParseLoop(Tail(lines),
                                     MapPut(m, lineSplit[2], b.bytes))

ParseSSHKeyScan(input) == ParseLoop(Split(input, NL), EmptyMap)

\* The callback with the unknown-type branch returning nil
HostKeyCallback_FailsOpen(knownKeysMap, hostname, remote, key) ==
    IF key.type \notin DOMAIN knownKeysMap
    THEN NilErr
    ELSE IF key.marshal # knownKeysMap[key.type]
    THEN Err("public key mismatch", <<>>, <<>>)
    ELSE NilErr

\* func(hostname string, remote net.Addr, key ssh.PublicKey) error, closed
\* over knownKeysMap; key.type is key.Type(), key.marshal is key.Marshal()
HostKeyCallback(knownKeysMap, hostname, remote, key) ==
    IF key.type \notin DOMAIN knownKeysMap
    THEN Err("unknown key type", key.type, <<>>)
    ELSE IF key.marshal # knownKeysMap[key.type]
    THEN Err("public key mismatch", <<>>, <<>>)
    ELSE NilErr

(* Inputs *)

MaxLines == 3      \* lines in the input of ParseSSHKeyScan

LineAbc == <<"h", SP, "1", SP, "Q", "U", "J", "D">>
LineAbd == <<"h", SP, "1", SP, "Q", "U", "J", "E">>
LineA2 == <<"h", SP, "2", SP, "Q", "Q", "=", "=">>
LineCr == <<"h", SP, "2", SP, "Q", "U", "I", "=", CR>>
LineTwoFields == <<"h", SP, "1">>
LineFourFields == <<"h", SP, "1", SP, "Q", "U", "J", "D", SP, "c">>
LineShort == <<"h", SP, "1", SP, "Q", "U", "J">>
LineBadChar == <<"h", SP, "1", SP, "Q", "U", "J", "!">>
LineEmpty == <<>>

LinePool == {LineAbc, LineAbd, LineA2, LineCr, LineTwoFields, LineFourFields,
             LineShort, LineBadChar, LineEmpty}

RECURSIVE JoinLines(_)
JoinLines(ls) ==
    IF ls = <<>> THEN <<>>
    ELSE IF Len(ls) = 1 THEN ls[1]
    ELSE ls[1] \o <<NL>> \o JoinLines(Tail(ls))

Inputs ==
    {JoinLines(ls) : ls \in UNION {[1..n -> LinePool] : n \in 0..MaxLines}}

KeyTypes == {<<"1">>, <<"2">>, <<"3">>}
KeyBytes == {<<65, 66, 67>>, <<65, 66, 68>>, <<65>>, <<65, 66>>}
Hostnames == {"localhost", "other"}
Remotes == {"127.0.0.1:22", "10.0.0.1:22"}

NoKey == [hostname |-> "", remote |-> "", key |-> [type |-> <<>>, marshal |-> <<>>]]

IdleParse ==
    /\ knownHosts = <<>>
    /\ pcP = "idle"
    /\ parsed = ParseErr("")
    /\ presented = NoKey
    /\ verdict = NilErr

\* ParseSSHKeyScan(knownHosts) runs and returns
Parse ==
    /\ pcP = "start"
    /\ parsed' = ParseSSHKeyScan(knownHosts)
    /\ pcP' = "parsed"
    /\ UNCHANGED <<knownHosts, presented, verdict>>
    /\ UNCHANGED nonParseVars

\* The SSH client calls the returned callback with the key the server presents
Verify ==
    /\ pcP = "parsed"
    /\ parsed.ok
    /\ \E h \in Hostnames, r \in Remotes, t \in KeyTypes, b \in KeyBytes :
          LET key == [type |-> t, marshal |-> b]
          IN  /\ presented' = [hostname |-> h, remote |-> r, key |-> key]
              /\ verdict' = HostKeyCallback(parsed.knownKeysMap, h, r, key)
    /\ pcP' = "verified"
    /\ UNCHANGED <<knownHosts, parsed>>
    /\ UNCHANGED nonParseVars

-----------------------------------------------------------------------------
(* package qemucli: KeyValueArg *)

MaxItems == 2      \* items passed to NewKeyValueArg

COMMA == ","
EQUALS == "="

\* Characters the allowlist rejects in keys and values
Disallowed == {COMMA, EQUALS, " ", "\"", "'"}

\* validateArgStrValue(s): TRUE when s passes
validateArgStrValue(str) == \A i \in 1..Len(str) : str[i] \notin Disallowed

ArgAcceptedValueKeyValue == "KeyValue"
ArgAcceptedValueNone == "None"

\* The value type registered for an argument key
KeyDevice == <<"d", "e", "v">>
KeyNographic == <<"n", "o", "g">>
KeyUnsafe == <<"d", COMMA>>

AcceptedValueOf(key) ==
    IF key = KeyDevice THEN ArgAcceptedValueKeyValue
    ELSE IF key = KeyNographic THEN ArgAcceptedValueNone
    ELSE "unknown"

\* validateArgKey(key, t): TRUE when key passes as an argument of type t
validateArgKey(key, t) ==
    key # <<>> /\ validateArgStrValue(key) /\ AcceptedValueOf(key) = t

\* func (a *KeyValueArg) ValueType() ArgAcceptedValue
KeyValueArgValueType == ArgAcceptedValueKeyValue

\* func (a *FlagArg) ValueType() ArgAcceptedValue
FlagArgValueType == ArgAcceptedValueNone

ZeroItem == [Key |-> <<>>, Value |-> <<>>]

\* ItemCheck without the empty-value check
ItemCheck_AllowsEmptyValue(item) ==
    IF Len(item.Key) = 0 THEN "empty key not allowed"
    ELSE IF ~validateArgStrValue(item.Key) THEN "validate key"
    ELSE IF ~validateArgStrValue(item.Value) THEN "validate map value"
    ELSE ""

\* The per-item checks of NewKeyValueArg: the error message, "" when the
\* item passes
ItemCheck(item) ==
    IF Len(item.Key) = 0 THEN "empty key not allowed"
    ELSE IF Len(item.Value) = 0 THEN "empty value for key is not allowed"
    ELSE IF ~validateArgStrValue(item.Key) THEN "validate key"
    ELSE IF ~validateArgStrValue(item.Value) THEN "validate map value"
    ELSE ""

\* The loop of StringValue writing the comma after each item instead of
\* before each item but the first
RECURSIVE StringValueFrom_CommaAfter(_, _, _)
StringValueFrom_CommaAfter(its, i, sb) ==
    IF i > Len(its) THEN sb
    ELSE LET item == its[i]
         IN  IF item.Key = <<>> THEN StringValueFrom_CommaAfter(its, i + 1, sb)
             ELSE LET sb2 == sb \o item.Key
                      sb3 == IF Len(item.Value) > 0
                             THEN sb2 \o <<EQUALS>> \o item.Value ELSE sb2
                  IN  StringValueFrom_CommaAfter(its, i + 1, sb3 \o <<COMMA>>)

\* The loop of StringValue from index i (1 is Go's index 0) with the builder
\* holding sb
RECURSIVE StringValueFrom(_, _, _)
StringValueFrom(its, i, sb) ==
    IF i > Len(its) THEN sb
    ELSE LET item == its[i]
         IN  IF item.Key = <<>> THEN StringValueFrom(its, i + 1, sb)
             ELSE LET sb1 == IF i # 1 THEN sb \o <<COMMA>> ELSE sb
                      sb2 == sb1 \o item.Key
                      sb3 == IF Len(item.Value) > 0
                             THEN sb2 \o <<EQUALS>> \o item.Value ELSE sb2
                  IN  StringValueFrom(its, i + 1, sb3)

\* func (a *KeyValueArg) StringValue() string
StringValue(its) == StringValueFrom(its, 1, <<>>)

(* Inputs *)

StrPool == {<<>>, <<"a">>, <<"b", "c">>, <<"x", COMMA>>}
ItemPool == [Key : StrPool, Value : StrPool]
ItemSeqs == UNION {[1..n -> ItemPool] : n \in 0..MaxItems}
ArgKeyPool == {KeyDevice, KeyNographic, KeyUnsafe}

NoArgResult == [obj |-> "pending", err |-> NilErr]

IdleArg ==
    /\ argKey = <<>>
    /\ items = <<>>
    /\ a = [key |-> <<>>, items |-> <<>>]
    /\ idx = 0
    /\ itemCopy = ZeroItem
    /\ pcA = "idle"
    /\ argResult = NoArgResult
    /\ rendered = <<>>

\* a := &KeyValueArg{...}; validateArgKey(key, a.ValueType())
KVNew ==
    /\ pcA = "start"
    /\ a' = [key |-> argKey, items |-> [i \in 1..Len(items) |-> ZeroItem]]
    /\ IF validateArgKey(argKey, KeyValueArgValueType)
       THEN pcA' = "loop" /\ idx' = 1 /\ argResult' = argResult
       ELSE /\ pcA' = "returned" /\ idx' = idx
            /\ argResult' = [obj |-> "nil", err |-> Err("validate arg key", <<>>, <<>>)]
    /\ UNCHANGED <<argKey, items, itemCopy, rendered>>
    /\ UNCHANGED nonArgVars

\* NewFlagArg: a := &FlagArg{key: key}; validateArgKey(a.key, a.ValueType())
FlagNew ==
    /\ pcA = "flagStart"
    /\ a' = [key |-> argKey, items |-> <<>>]
    /\ IF validateArgKey(argKey, FlagArgValueType)
       THEN argResult' = [obj |-> "flag", err |-> NilErr]
       ELSE argResult' = [obj |-> "nil", err |-> Err("validate arg key", <<>>, <<>>)]
    /\ pcA' = "flagReturned"
    /\ UNCHANGED <<argKey, items, idx, itemCopy, rendered>>
    /\ UNCHANGED nonArgVars

\* `for i, item := range items` takes the next element; `item := item`
KVRead ==
    /\ pcA = "loop" /\ idx <= Len(a.items)
    /\ itemCopy' = items[idx]
    /\ pcA' = "check"
    /\ UNCHANGED <<argKey, items, a, idx, argResult, rendered>>
    /\ UNCHANGED nonArgVars

\* KVItem storing the element of the caller's slice, a.items[i] = items[i],
\* instead of the checked copy
KVItem_StoresInput ==
    /\ pcA = "check"
    /\ LET msg == ItemCheck(itemCopy)
       IN  IF msg # ""
           THEN /\ pcA' = "returned"
                /\ argResult' = [obj |-> "nil", err |-> Err(msg, <<>>, <<>>)]
                /\ UNCHANGED <<a, idx>>
           ELSE /\ a' = [a EXCEPT !.items[idx] = items[idx]]
                /\ idx' = idx + 1
                /\ pcA' = "loop"
                /\ UNCHANGED argResult
    /\ UNCHANGED <<argKey, items, itemCopy, rendered>>
    /\ UNCHANGED nonArgVars

\* The body of one iteration: the checks on the copy and a.items[i] = item
KVItem ==
    /\ pcA = "check"
    /\ LET msg == ItemCheck(itemCopy)
       IN  IF msg # ""
           THEN /\ pcA' = "returned"
                /\ argResult' = [obj |-> "nil", err |-> Err(msg, <<>>, <<>>)]
                /\ UNCHANGED <<a, idx>>
           ELSE /\ a' = [a EXCEPT !.items[idx] = itemCopy]
                /\ idx' = idx + 1
                /\ pcA' = "loop"
                /\ UNCHANGED argResult
    /\ UNCHANGED <<argKey, items, itemCopy, rendered>>
    /\ UNCHANGED nonArgVars

\* The caller writes to an element of the slice it passed, at any moment from
\* the call on.  The writes are unsynchronised with the constructor's reads, so
\* they land one field at a time and a read may see an element half written.
MutPool == {<<>>, <<"b", "c">>}

KVMutate ==
    /\ pcA \in {"loop", "check", "returned", "rendered"}
    /\ \E j \in 1..Len(items), f \in {"Key", "Value"}, v \in MutPool :
          /\ items[j][f] # v
          /\ items' = [items EXCEPT ![j][f] = v]
    /\ UNCHANGED <<argKey, a, idx, itemCopy, pcA, argResult, rendered>>
    /\ UNCHANGED nonArgVars

\* return a, nil
KVReturn ==
    /\ pcA = "loop" /\ idx > Len(a.items)
    /\ pcA' = "returned"
    /\ argResult' = [obj |-> "a", err |-> NilErr]
    /\ UNCHANGED <<argKey, items, a, idx, itemCopy, rendered>>
    /\ UNCHANGED nonArgVars

\* a.StringValue() on the returned object
KVRender ==
    /\ pcA = "returned" /\ argResult.obj = "a"
    /\ rendered' = StringValue(a.items)
    /\ pcA' = "rendered"
    /\ UNCHANGED <<argKey, items, a, idx, itemCopy, argResult>>
    /\ UNCHANGED nonArgVars

-----------------------------------------------------------------------------
(* One invocation of sshSetup or scanSSHIdentity on an Instance *)

InitSerial ==
    /\ op \in {"setup", "scan"}
    /\ pc = "reset"
    /\ ch = <<>>
    /\ ctxDone = FALSE
    /\ now = 0
    /\ deadline = 0
    /\ stdOutErrBuf = <<>>
    /\ ret = <<>>
    /\ result = NoResult
    /\ consumed = <<>>
    /\ emitted = 0
    /\ calls = <<>>
    /\ IdleParse
    /\ IdleArg
    /\ IdleSSH

NextSerial ==
    \/ Emit \/ Cancel \/ Tick
    \/ SshSetupReset \/ SshSetupKeygen \/ SshSetupWrite \/ SshSetupDeadline
    \/ SshSetupCtxDone \/ SshSetupTimeout \/ SshSetupRecv
    \/ ScanReset \/ ScanWrite \/ ScanDeadline
    \/ ScanCtxDone \/ ScanTimeout \/ ScanRecv

SpecSerial == InitSerial /\ [][NextSerial]_vars

IdleSerial ==
    /\ op = "none"
    /\ pc = "idle"
    /\ ch = <<>>
    /\ ctxDone = FALSE
    /\ now = 0
    /\ deadline = 0
    /\ stdOutErrBuf = <<>>
    /\ ret = <<>>
    /\ result = NoResult
    /\ consumed = <<>>
    /\ emitted = 0
    /\ calls = <<>>

(* One call of ParseSSHKeyScan, then a call of the callback it returned *)

InitParse ==
    /\ knownHosts \in Inputs
    /\ pcP = "start"
    /\ parsed = ParseErr("")
    /\ presented = NoKey
    /\ verdict = NilErr
    /\ IdleSerial
    /\ IdleArg
    /\ IdleSSH

NextParse == Parse \/ Verify

SpecParse == InitParse /\ [][NextParse]_vars

(* One call of NewKeyValueArg, then StringValue on the object it returned *)

InitArg ==
    /\ argKey \in ArgKeyPool
    /\ \/ pcA = "start" /\ items \in ItemSeqs
       \/ pcA = "flagStart" /\ items = <<>>
    /\ a = [key |-> <<>>, items |-> <<>>]
    /\ idx = 0
    /\ itemCopy = ZeroItem
    /\ argResult = NoArgResult
    /\ rendered = <<>>
    /\ IdleSerial
    /\ IdleParse
    /\ IdleSSH

NextArg == KVNew \/ KVRead \/ KVItem \/ KVReturn \/ KVRender \/ FlagNew

SpecArg == InitArg /\ [][NextArg]_vars

(* The same, with the caller writing to its slice concurrently *)

NextArgRace == NextArg \/ KVMutate

SpecArgRace == InitArg /\ [][NextArgRace]_vars

\* The select of both loops picks among its ready cases at random, so a case
\* that stays ready is eventually taken; the clock advances; the statement
\* after the write is executed.
FairSpecSerial ==
    /\ SpecSerial
    /\ WF_vars(Tick)
    /\ WF_vars(SshSetupDeadline) /\ WF_vars(ScanDeadline)
    /\ WF_vars(SshSetupTimeout) /\ WF_vars(ScanTimeout)

(* StringValue on a KeyValueArg that holds any item sequence: the struct
   is package-private data, not only what NewKeyValueArg stores *)

InitStringValue ==
    /\ argKey = KeyDevice
    /\ items = <<>>
    /\ a \in [key : {KeyDevice}, items : ItemSeqs]
    /\ idx = 0
    /\ itemCopy = ZeroItem
    /\ pcA = "returned"
    /\ argResult = [obj |-> "a", err |-> NilErr]
    /\ rendered = <<>>
    /\ IdleSerial
    /\ IdleParse
    /\ IdleSSH

NextStringValue == KVRender

SpecStringValue == InitStringValue /\ [][NextStringValue]_vars

(* One call of runSSHCmd *)

InitSSH ==
    /\ pcS = "new"
    /\ sessOpened = 0
    /\ sessOpen = 0
    /\ cmdRuns = 0
    /\ stdout = <<>>
    /\ stderr = <<>>
    /\ sshResult = NoResult
    /\ IdleSerial
    /\ IdleParse
    /\ IdleArg

NextSSH ==
    SSHNewSession \/ SSHRunStart \/ SSHOutput \/ SSHRunEnds \/ SSHDeferredClose

SpecSSH == InitSSH /\ [][NextSSH]_vars

-----------------------------------------------------------------------------
(* Properties of sshSetup and scanSSHIdentity *)

IsSentinel(d) == HasPrefix(d, prefix)

ConsumedData == [i \in 1..Len(consumed) |-> consumed[i].data]

LastConsumed == consumed[Len(consumed)]

\* The invocation returned from the branch that handles a sentinel chunk
EndedBySentinel ==
    pc = "done" /\ consumed # <<>> /\ IsSentinel(LastConsumed.data)

\* The status character of a sentinel chunk, "" when there is none
StatusChar(d) == IF Len(d) > Len(prefix) THEN d[Len(prefix) + 1] ELSE ""

\* C1: in sshSetup the first received chunk that starts with "SERIAL STATUS: "
\* ends the invocation, and the signer is returned with a nil error exactly
\* when the character after the prefix is '0'; otherwise an error and no
\* signer are returned.
C1_SetupStatusDecides ==
    op = "setup" =>
      /\ \A i \in 1..Len(consumed) :
            IsSentinel(consumed[i].data) => i = Len(consumed) /\ pc = "done"
      /\ EndedBySentinel =>
            IF StatusChar(LastConsumed.data) = "0"
            THEN result.val = "sshSigner" /\ result.err = NilErr
            ELSE result.val = "nil" /\ result.err # NilErr
      /\ result.val = "sshSigner" =>
            EndedBySentinel /\ StatusChar(LastConsumed.data) = "0"

C1_Witness ==
    /\ op = "setup" /\ pc = "done"
    /\ Len(consumed) >= 2
    /\ result.val = "sshSigner"

NoSentinelPending == \A i \in 1..Len(ch) : ~IsSentinel(ch[i].data)

\* C2: if, once sshSetup has written its command, no sentinel chunk is ever
\* delivered and the context is never cancelled, sshSetup eventually returns
\* the timeout error, whatever other chunks arrive; and the deadline, once
\* set, is not moved by the loop.
C2_SetupTimesOut ==
    /\ ([]~ctxDone /\ [](pc \in {"deadline", "wait"} => NoSentinelPending))
         => [](op = "setup" /\ pc = "deadline"
                 => <>(pc = "done" /\ result.err.msg = "setup command timed out"))
    /\ [][op = "setup" /\ pc = "wait" => deadline' = deadline]_vars

C2_Witness ==
    /\ op = "setup" /\ pc = "done"
    /\ result.err.msg = "setup command timed out"
    /\ Len(consumed) >= 2
    /\ now = deadline

\* C3: when sshSetup fails on a non-zero status or on the deadline, the error
\* embeds the accumulated log, and that log is the concatenation, in arrival
\* order, of every chunk the loop received.
C3_SetupErrorEmbedsLog ==
    (/\ op = "setup" /\ pc = "done"
     /\ result.err.msg \in {"non-zero setup command status code",
                            "setup command timed out"})
      => /\ stdOutErrBuf = Concat(ConsumedData)
         /\ result.err.log = getLogErrMsg(Concat(ConsumedData))
         /\ Embeds(result.err.log, Concat(ConsumedData))

C3_Witness ==
    /\ op = "setup" /\ pc = "done"
    /\ result.err.msg = "non-zero setup command status code"
    /\ Len(consumed) = 3
    /\ consumed[1].data # consumed[2].data
    /\ consumed[1].data # <<>> /\ consumed[2].data # <<>>

\* C4 as stated: a chunk that is exactly the prefix makes sshSetup fail with
\* an error that carries the accumulated log, like a non-zero status does.
C4_BareSentinelCarriesLog ==
    (op = "setup" /\ EndedBySentinel /\ LastConsumed.data = prefix)
      => /\ result.val = "nil" /\ result.err # NilErr
         /\ result.err.log = getLogErrMsg(Concat(ConsumedData))

\* What sshSetup does on a chunk that is exactly the prefix: it fails with no
\* signer and the fixed error "setup command status code did not show up",
\* which carries no log.
BareSentinelFailsWithoutLog ==
    (op = "setup" /\ EndedBySentinel /\ LastConsumed.data = prefix)
      => /\ result.val = "nil"
         /\ result.err.msg = "setup command status code did not show up"
         /\ result.err.log = <<>>

BareSentinelSeen ==
    /\ op = "setup" /\ EndedBySentinel /\ LastConsumed.data = prefix
    /\ Len(consumed) >= 2
    /\ stdOutErrBuf # prefix

\* C5 as stated: once the context is cancelled while the invocation waits
\* (here: after a chunk was received with the context still live), the
\* invocation receives no further chunk and returns the context's error.
C5_CancelPreempts ==
    /\ \A i \in 2..Len(consumed) :
          ~consumed[i - 1].late => ~consumed[i].late
    /\ (pc = "done" /\ ctxDone /\ consumed # <<>> /\ ~LastConsumed.late)
          => result = Return("nil", <<>>, CtxErr)

\* C5 amended: the cancellation case returns the context's error, no value,
\* and receives nothing; it is the only way out of the wait when the context
\* is cancelled, no chunk is pending and the deadline has not passed. (With a
\* chunk pending or the deadline passed, the select may take those instead.)
C5_CancelReturnsCtxErr ==
    /\ [](result.err = CtxErr => ctxDone /\ result.val = "nil" /\ result.out = <<>>)
    /\ [][(pc = "wait" /\ result'.err = CtxErr) => consumed' = consumed]_vars
    /\ [][(pc = "wait" /\ ctxDone /\ ch = <<>> /\ now < deadline /\ pc' # pc)
            => result' = Return("nil", <<>>, CtxErr)]_vars

C5_Witness ==
    /\ pc = "done" /\ result.err = CtxErr
    /\ consumed # <<>>
    /\ op = "scan"

\* C6: a sentinel chunk that arrived before the command was written never
\* completes the invocation.
C6_StaleNeverCompletes ==
    EndedBySentinel => ~LastConsumed.pre

\* C7: scanSSHIdentity on success returns the concatenation, in arrival
\* order, of the received chunks whose first byte is '|'; on every other
\* outcome it returns no bytes.
PipeChunk(d) == Len(d) > 0 /\ d[1] = "|"

C7_ScanReturnsPipeChunks ==
    (op = "scan" /\ pc = "done") =>
        IF result.err = NilErr
        THEN /\ EndedBySentinel /\ StatusChar(LastConsumed.data) = "0"
             /\ result.out =
                  Concat(SelectSeq(SubSeq(ConsumedData, 1, Len(consumed) - 1),
                                   PipeChunk))
        ELSE result.val = "nil" /\ result.out = <<>>

C7_Witness ==
    /\ op = "scan" /\ pc = "done" /\ result.err = NilErr
    /\ Len(consumed) = 3
    /\ result.out = ChunkScanLine
    /\ \E i \in 1..2 : ~PipeChunk(consumed[i].data)

-----------------------------------------------------------------------------
(* Properties of ParseSSHKeyScan *)

InputLines == Split(knownHosts, NL)

CountOf(s, c) == Cardinality({i \in 1..Len(s) : s[i] = c})

\* The bytes after the last space of a line
LastField(line) ==
    LET sps == {i \in 1..Len(line) : line[i] = SP}
        from == IF sps = {} THEN 0 ELSE CHOOSE i \in sps : \A j \in sps : j <= i
    IN  SubSeq(line, from + 1, Len(line))

\* Padded standard base64, line breaks aside: a multiple of four characters
\* of the alphabet, the last one or two of which may be '='
ValidBase64(f) ==
    LET g == SelectSeq(f, LAMBDA c : c # CR /\ c # NL)
        n == Len(g)
    IN  /\ n % 4 = 0
        /\ \A i \in 1..n :
              \/ InB64Alphabet(g[i])
              \/ g[i] = B64Pad /\ i = n
              \/ g[i] = B64Pad /\ i = n - 1 /\ g[n] = B64Pad

WellFormedLine(line) == CountOf(line, SP) = 2 /\ ValidBase64(LastField(line))

\* The input lines that are records of key type t, as their decoded bytes
\* by line number
RecordsOfType(t) ==
    LET lines == InputLines
        fields == [i \in 1..Len(lines) |-> Split(lines[i], SP)]
        recs == {i \in 1..Len(lines) :
                   lines[i] # <<>> /\ Len(fields[i]) = 3 /\ fields[i][2] = t}
    IN  [i \in recs |-> DecodeString(fields[i][3]).bytes]

\* C8: the returned callback accepts a key only if a record of its type was
\* scanned with exactly its bytes; with no record of the type it fails with
\* "unknown key type", with records of the type that all differ it fails
\* with "public key mismatch"; hostname and remote address do not matter.
C8_CallbackFailsClosed ==
    pcP = "verified" =>
      LET b == presented.key.marshal
          recs == RecordsOfType(presented.key.type)
      IN  /\ verdict = NilErr => \E i \in DOMAIN recs : recs[i] = b
          /\ DOMAIN recs = {} => verdict.msg = "unknown key type"
          /\ (DOMAIN recs # {} /\ \A i \in DOMAIN recs : recs[i] # b)
                => verdict.msg = "public key mismatch"
          /\ \A h \in Hostnames, r \in Remotes :
                HostKeyCallback(parsed.knownKeysMap, h, r, presented.key) = verdict

C8_Witness ==
    /\ pcP = "verified"
    /\ verdict.msg = "unknown key type"
    /\ DOMAIN parsed.knownKeysMap = {<<"1">>}
    /\ presented.key.type = <<"2">>

\* C9: ParseSSHKeyScan returns a callback exactly when every non-empty line
\* has three space-separated fields the third of which is valid base64;
\* otherwise it returns an error and no callback, wherever the bad line is.
C9_ParseAllOrNothing ==
    pcP = "parsed" =>
      /\ parsed.ok <=>
            \A i \in 1..Len(InputLines) :
                InputLines[i] # <<>> => WellFormedLine(InputLines[i])
      /\ ~parsed.ok => parsed.err # NilErr /\ parsed.knownKeysMap = EmptyMap
      /\ parsed.ok => parsed.err = NilErr

C9_Witness ==
    /\ pcP = "parsed" /\ ~parsed.ok
    /\ Len(InputLines) = 3
    /\ WellFormedLine(InputLines[1])
    /\ ~WellFormedLine(InputLines[2]) /\ InputLines[2] # <<>>
    /\ WellFormedLine(InputLines[3])

-----------------------------------------------------------------------------
(* Properties of KeyValueArg *)

RenderItem(item) == item.Key \o <<EQUALS>> \o item.Value

RECURSIVE JoinItems(_)
JoinItems(its) ==
    IF its = <<>> THEN <<>>
    ELSE IF Len(its) = 1 THEN RenderItem(its[1])
    ELSE RenderItem(its[1]) \o <<COMMA>> \o JoinItems(Tail(its))

\* C10: for an accepted item sequence StringValue() is the items rendered
\* key=value and joined with ',' in order, with no leading, trailing or
\* doubled comma, and empty for no items.
C10_RenderJoinsItems ==
    pcA = "rendered" =>
      /\ a.items = items
      /\ rendered = JoinItems(items)
      /\ items = <<>> => rendered = <<>>
      /\ rendered # <<>> =>
            /\ rendered[1] # COMMA
            /\ rendered[Len(rendered)] # COMMA
            /\ \A i \in 1..(Len(rendered) - 1) :
                  ~(rendered[i] = COMMA /\ rendered[i + 1] = COMMA)

C10_Witness ==
    /\ pcA = "rendered"
    /\ Len(items) = MaxItems
    /\ items[1] # items[2]

\* An item that satisfies the constructor's requirements
ItemOk(it) ==
    /\ it.Key # <<>> /\ it.Value # <<>>
    /\ validateArgStrValue(it.Key) /\ validateArgStrValue(it.Value)

\* The items the constructor has stored so far
StoredCount ==
    IF pcA \in {"loop", "check"} THEN idx - 1
    ELSE IF pcA \in {"returned", "rendered"} /\ argResult.obj = "a"
    THEN Len(a.items) ELSE 0

\* C11: every item a KeyValueArg holds passed the checks itself, and what is
\* stored never changes when the caller writes to its slice, during the
\* construction or after it.
C11_StoredItemsAreCheckedCopies ==
    /\ [](\A i \in 1..StoredCount : ItemOk(a.items[i]))
    /\ [](pcA = "rendered" => rendered = JoinItems(a.items))
    /\ [][items' # items => a' = a /\ rendered' = rendered]_vars
    /\ [][\A i \in 1..StoredCount : a'.items[i] = a.items[i]]_vars

C11_Witness ==
    /\ pcA = "rendered"
    /\ Len(items) = MaxItems
    /\ \A i \in 1..Len(items) : ~ItemOk(items[i])

\* C12: a constructor returns either an object or an error, never both and
\* never neither; NewKeyValueArg returns the object exactly when the key
\* validates and every item, at every position, has a non-empty allowlisted
\* key and value, NewFlagArg exactly when the key validates; a returned
\* object holds the validated key and items.
C12_ConstructionAllOrNothing ==
    /\ pcA \in {"returned", "rendered", "flagReturned"} =>
          /\ argResult.obj \in {"nil", "a", "flag"}
          /\ argResult.obj = "nil" <=> argResult.err # NilErr
    /\ pcA \in {"returned", "rendered"} =>
          /\ argResult.obj # "flag"
          /\ argResult.obj = "a" <=>
                /\ validateArgKey(argKey, ArgAcceptedValueKeyValue)
                /\ \A i \in 1..Len(items) : ItemOk(items[i])
          /\ argResult.obj = "a" => a.key = argKey /\ a.items = items
    /\ pcA = "flagReturned" =>
          /\ argResult.obj # "a"
          /\ argResult.obj = "flag" <=>
                validateArgKey(argKey, ArgAcceptedValueNone)
          /\ argResult.obj = "flag" => a.key = argKey

C12_Witness ==
    /\ pcA = "returned"
    /\ argResult.obj = "nil"
    /\ validateArgKey(argKey, ArgAcceptedValueKeyValue)
    /\ Len(items) = MaxItems
    /\ \A i \in 1..(Len(items) - 1) : ItemOk(items[i])
    /\ items[Len(items)].Key # <<>> /\ items[Len(items)].Value = <<>>

-----------------------------------------------------------------------------
(* Properties of runSSHCmd *)

SessionOpenFailed ==
    pcS = "returned" /\ sshResult.err.msg = "create new vm ssh session"

\* C13: a call of runSSHCmd opens at most one session; when the call has
\* returned no session is open, whether the command succeeded or failed; when
\* opening the session failed the command was never started and no session
\* was opened.
C13_SessionClosedOnReturn ==
    /\ sessOpened <= 1
    /\ sessOpen \in 0..sessOpened
    /\ cmdRuns <= sessOpened
    /\ pcS = "returned" => sessOpen = 0
    /\ SessionOpenFailed => cmdRuns = 0 /\ sessOpened = 0

C13_Witness ==
    /\ pcS = "returned"
    /\ sessOpened = 1
    /\ cmdRuns = 1
    /\ sshResult.err.msg = "run cmd"

\* The call has evaluated its return statement
SSHReturning == pcS \in {"closing", "returned"}

\* C18: when runSSHCmd fails it returns no bytes and an error that carries the
\* underlying error and the text the command wrote to its error stream (none
\* when no session could be opened); when it succeeds it returns the bytes of
\* the standard-output buffer, whatever the error stream holds, and no error.
C18_RunResult ==
    SSHReturning =>
      /\ sshResult.val \in {"nil", "bytes"}
      /\ sshResult.val = "nil" <=> sshResult.err # NilErr
      /\ sshResult.err # NilErr =>
            /\ sshResult.out = <<>>
            /\ sshResult.err.arg \in SessionErrs \cup RunErrs
            /\ Embeds(sshResult.err.log, stderr)
            /\ cmdRuns = 1 => sshResult.err.log = getLogErrMsg(stderr)
      /\ sshResult.err = NilErr =>
            /\ cmdRuns = 1
            /\ sshResult.out = stdout

C18_Witness ==
    /\ pcS = "returned"
    /\ sshResult.err.msg = "run cmd"
    /\ Len(stderr) = MaxOut
    /\ Len(stdout) = MaxOut
    /\ stdout # stderr

\* The first bytes of d are the sentinel
SentinelFirst(d) ==
    /\ Len(d) >= Len(prefix)
    /\ \A i \in 1..Len(prefix) : d[i] = prefix[i]

\* The invocation returned from its status branch
CompletedByStatus ==
    /\ pc = "done"
    /\ \/ result.err = NilErr
       \/ result.err.msg \in
            {"setup command status code did not show up",
             "non-zero setup command status code",
             "keyscan command status code did not show up",
             "non-zero keyscan command status code"}

\* C14: an invocation takes its status branch only on a received chunk that
\* starts with the sentinel; every chunk received before it does not start
\* with the sentinel (it may hold the sentinel further in); the first received
\* chunk that starts with the sentinel ends the invocation, and once the
\* invocation has ended it receives nothing.
C14_SentinelFirstCompletes ==
    /\ [](\A i \in 1..Len(consumed) :
            SentinelFirst(consumed[i].data) =>
                i = Len(consumed) /\ CompletedByStatus)
    /\ [](CompletedByStatus =>
            consumed # <<>> /\ SentinelFirst(LastConsumed.data))
    /\ [][pc = "done" => pc' = "done" /\ consumed' = consumed]_vars

C14_Witness ==
    /\ CompletedByStatus
    /\ \E i \in 1..(Len(consumed) - 1) : consumed[i].data = ChunkEcho
    /\ ch # <<>>

BareStatusMsgs == {"setup command status code did not show up",
                   "keyscan command status code did not show up"}

WrongStatusMsgs == {"non-zero setup command status code",
                    "non-zero keyscan command status code"}

\* C16: in sshSetup and in scanSSHIdentity a sentinel chunk with nothing after
\* the prefix fails with the "did not show up" error and a sentinel chunk with
\* a status character other than '0' fails with the "non-zero" error; the two
\* errors differ.
C16_BareAndWrongStatusDiffer ==
    /\ BareStatusMsgs \cap WrongStatusMsgs = {}
    /\ EndedBySentinel =>
          /\ LastConsumed.data = prefix =>
                /\ result.val = "nil"
                /\ result.err.msg \in BareStatusMsgs
                /\ result.err.msg \notin WrongStatusMsgs
          /\ StatusChar(LastConsumed.data) \notin {"", "0"} =>
                /\ result.val = "nil"
                /\ result.err.msg \in WrongStatusMsgs
                /\ result.err.msg \notin BareStatusMsgs

C16_Witness ==
    /\ op = "scan" /\ EndedBySentinel
    /\ LastConsumed.data = prefix
    /\ ret # <<>>

\* The calls made so far of the function named f
CallsOf(f) == SelectSeq(calls, LAMBDA c : c.fn = f)

\* The last call made failed
LastCallFailed == calls # <<>> /\ ~calls[Len(calls)].ok

WriteErrMsgs == {"write ssh setup serial command",
                 "write keyscan command to serial"}

\* C17: generateSSHKey is called at most once; when it fails sshSetup returns
\* the key-generation error and no signer, writes nothing to the serial device
\* and receives no chunk; when writeSerial fails, sshSetup and scanSSHIdentity
\* return the write error and receive no chunk.  Only the last call made can
\* be a failed one, and nothing is received after it.
C17_EarlyFailuresReturnAtOnce ==
    /\ Len(CallsOf("generateSSHKey")) <= 1
    /\ Len(CallsOf("writeSerial")) <= 1
    /\ \A i \in 1..Len(calls) : ~calls[i].ok => i = Len(calls)
    /\ LastCallFailed =>
          /\ pc = "done"
          /\ consumed = <<>>
          /\ result.val = "nil"
          /\ IF calls[Len(calls)].fn = "generateSSHKey"
             THEN /\ result.err = KeygenErr
                  /\ CallsOf("writeSerial") = <<>>
             ELSE result.err.msg \in WriteErrMsgs
    /\ (pc = "done" /\ result.err.msg \in WriteErrMsgs \cup {KeygenErr.msg})
          => LastCallFailed

C17_Witness ==
    /\ op = "setup" /\ pc = "done"
    /\ result.err = KeygenErr
    /\ ch # <<>>

-----------------------------------------------------------------------------
(* Properties of StringValue on any stored sequence *)

NonBlankKey(it) == it.Key # <<>>

\* `key` when the value is empty, `key=value` otherwise
RenderKept(it) ==
    IF it.Value = <<>> THEN it.Key ELSE it.Key \o <<EQUALS>> \o it.Value

RECURSIVE JoinKept(_)
JoinKept(its) ==
    IF its = <<>> THEN <<>>
    ELSE IF Len(its) = 1 THEN RenderKept(its[1])
    ELSE RenderKept(its[1]) \o <<COMMA>> \o JoinKept(Tail(its))

\* No key or value of the stored items holds a comma
StoredCommaFree ==
    \A i \in 1..Len(a.items) :
        /\ \A j \in 1..Len(a.items[i].Key) : a.items[i].Key[j] # COMMA
        /\ \A j \in 1..Len(a.items[i].Value) : a.items[i].Value[j] # COMMA

\* C15 as stated: StringValue() of any stored sequence, blank keys at any
\* position included, is the non-blank-key items joined by single commas in
\* order, with no comma at the start, none at the end and no two in a row.
C15_BlankKeysDropped ==
    (pcA = "rendered" /\ StoredCommaFree) =>
      /\ rendered = JoinKept(SelectSeq(a.items, NonBlankKey))
      /\ rendered # <<>> =>
            /\ rendered[1] # COMMA
            /\ rendered[Len(rendered)] # COMMA
            /\ \A i \in 1..(Len(rendered) - 1) :
                  ~(rendered[i] = COMMA /\ rendered[i + 1] = COMMA)

-----------------------------------------------------------------------------
(* Properties of ParseSSHKeyScan with repeated key types *)

\* The greatest index of a non-empty record table
LastIndex(recs) == CHOOSE i \in DOMAIN recs : \A j \in DOMAIN recs : j <= i

\* C19: when the input holds several records of one key type, a key of that
\* type is accepted exactly when its bytes are those of the last such record;
\* a key equal only to an earlier record is rejected with "public key
\* mismatch".
C19_LastRecordWins ==
    pcP = "verified" =>
      LET recs == RecordsOfType(presented.key.type)
      IN  Cardinality(DOMAIN recs) >= 2 =>
            LET last == recs[LastIndex(recs)]
            IN  /\ verdict = NilErr <=> presented.key.marshal = last
                /\ presented.key.marshal # last =>
                      verdict.msg = "public key mismatch"
                /\ parsed.knownKeysMap[presented.key.type] = last

C19_Witness ==
    /\ pcP = "verified"
    /\ verdict.msg = "public key mismatch"
    /\ LET recs == RecordsOfType(presented.key.type)
       IN  /\ Cardinality(DOMAIN recs) >= 2
           /\ \E i \in DOMAIN recs :
                 i < LastIndex(recs) /\ recs[i] = presented.key.marshal

====
